---------------------------- MODULE Spec2Model ----------------------------
(***************************************************************************)
(* Model of the two Streamlit tools of the repository:                     *)
(*   - the stock dashboard (src/Another.py): one run of app(), which calls *)
(*     get_stock_data and calculate_price_difference and renders the page; *)
(*   - the palette generator (src/generator.py): one run of main(), and    *)
(*     the pure function rgb_to_hex.                                       *)
(* Prices are integers (cents).  A JSON object is a sequence of            *)
(* <<key, value>> pairs, a JSON date text "YYYY-MM-DD" is the tuple        *)
(* <<year, month, day>>, a pandas Timestamp is a day number since          *)
(* 1970-01-01, and a DataFrame is a record of its column names, its index  *)
(* and its rows.                                                           *)
(***************************************************************************)
EXTENDS Integers, Sequences, FiniteSets, TLC

VARIABLES
    \* ---- stock dashboard (src/Another.py) ----
    pc,          \* position of the run of app()
    symbol,      \* the ticker chosen in the sidebar
    response,    \* the HTTP response of requests.get
    requests,    \* number of HTTP requests sent in this run
    json_calls,  \* number of response.json() calls in this run
    data,        \* the parsed body (line 20)
    stock_data,  \* what get_stock_data returned to app()
    metrics,     \* the locals of lines 54-57
    reads,       \* row positions calculate_price_difference has read
    page,        \* the page elements rendered so far, in order
    exc,         \* the exception that ended the run, or "none"
    \* ---- palette generator (src/generator.py) ----
    gpc,         \* position of the run of main()
    upload,      \* the uploaded image, or no upload
    adjusted,    \* adjusted_image
    num_colors,  \* the slider value
    colors,      \* the palette returned by extract_colors
    hex_colors,  \* the hex projection of the palette
    gpage,       \* the page elements rendered so far, in order
    \* ---- rgb_to_hex alone ----
    rgb,         \* the argument of rgb_to_hex
    hex          \* its result

stockVars == <<pc, symbol, response, requests, json_calls, data, stock_data,
               metrics, reads, page, exc>>
paletteVars == <<gpc, upload, adjusted, num_colors, colors, hex_colors, gpage>>
hexVars == <<rgb, hex>>
vars == <<stockVars, paletteVars, hexVars>>

-----------------------------------------------------------------------------
(* Bounds of the model *)

\* arrays of 0..MaxShort records are enumerated exhaustively
MaxShort == 3
\* long arrays have 252-Margin .. 252+Margin rows (and 100 and 300 rows)
Margin == 2
\* the first MaxSymbols entries of popular_symbols are offered
MaxSymbols == 2

-----------------------------------------------------------------------------
(* Program constants of src/Another.py *)

\* the success status of line 16
HTTP_OK == 200
\* the number of trading days of one year (lines 36, 56, 57)
YEAR_ROWS == 252

popular_symbols ==
    <<"AAPL", "GOOGL", "MSFT", "AMZN", "TSLA", "FB", "BRK-B", "V", "NVDA", "JPM">>

\* the column selection of line 29 and the new names of line 30
SELECTED == <<"open", "high", "low", "close", "volume">>
RENAMED == <<"Open", "High", "Low", "Close", "Volume">>

None == [tag |-> "None"]
Unset == [tag |-> "unset"]

Min(a, b) == IF a < b THEN a ELSE b
SeqMax(s) == CHOOSE x \in {s[i] : i \in 1..Len(s)} :
                 \A j \in 1..Len(s) : s[j] <= x
SeqMin(s) == CHOOSE x \in {s[i] : i \in 1..Len(s)} :
                 \A j \in 1..Len(s) : s[j] >= x

-----------------------------------------------------------------------------
(* Dates: pd.to_datetime of "YYYY-MM-DD" (line 27) *)

\* days since 1970-01-01 of the civil date <<y, m, d>>
to_datetime(d) ==
    LET y == IF d[2] <= 2 THEN d[1] - 1 ELSE d[1]
        era == y \div 400
        yoe == y - era * 400
        mp == IF d[2] > 2 THEN d[2] - 3 ELSE d[2] + 9
        doy == (153 * mp + 2) \div 5 + d[3] - 1
        doe == yoe * 365 + yoe \div 4 - yoe \div 100 + doy
    IN  era * 146097 + doe - 719468

\* the date text the API prints for a day number (inverse of the above)
DateText(z0) ==
    LET z == z0 + 719468
        era == z \div 146097
        doe == z - era * 146097
        yoe == (doe - doe \div 1460 + doe \div 36524 - doe \div 146096) \div 365
        doy == doe - (365 * yoe + yoe \div 4 - yoe \div 100)
        mp == (5 * doy + 2) \div 153
        d == doy - (153 * mp + 2) \div 5 + 1
        m == IF mp < 10 THEN mp + 3 ELSE mp - 9
        y == yoe + era * 400
    IN  <<IF m <= 2 THEN y + 1 ELSE y, m, d>>

-----------------------------------------------------------------------------
(* The API's responses (the value requests.get returns at line 13) *)

\* the order in which a record's keys arrive: the documented order, or the
\* order of the provider's chart records, which carry a "label" as well
KeyOrders ==
    { <<"date", "open", "high", "low", "close", "volume">>,
      <<"close", "high", "low", "open", "volume", "label", "date">> }

\* one per-day record: a JSON object with the keys of keyOrder
ApiRecord(keyOrder, date, ohlcv) ==
    LET v == [k \in {"date", "open", "high", "low", "close", "volume", "label"} |->
                 CASE k = "date"   -> date
                   [] k = "open"   -> ohlcv[1]
                   [] k = "high"   -> ohlcv[2]
                   [] k = "low"    -> ohlcv[3]
                   [] k = "close"  -> ohlcv[4]
                   [] k = "volume" -> ohlcv[5]
                   [] OTHER        -> "label"]
    IN  [i \in 1..Len(keyOrder) |-> <<keyOrder[i], v[keyOrder[i]]>>]

ShortDates == { <<2023, 12, 29>>, <<2024, 2, 29>>, <<2024, 3, 1>> }
ShortOhlcv == { <<1100, 1500, 900, 1200, 1000>>,
                <<2000, 2500, 1800, 1900, 7>> }

RECURSIVE SeqsUpTo(_, _)
SeqsUpTo(S, n) ==
    IF n = 0 THEN { <<>> }
    ELSE LET shorter == SeqsUpTo(S, n - 1)
         IN  shorter \cup { Append(s, x) : s \in {t \in shorter : Len(t) = n - 1},
                                           x \in S }

\* every array of at most MaxShort records, in any date order, with repeats
ShortArrays ==
    { [i \in 1..Len(s) |-> ApiRecord(ko, s[i][1], s[i][2])] :
        s \in SeqsUpTo(ShortDates \X ShortOhlcv, MaxShort), ko \in KeyOrders }

DateOrders == {"ascending", "descending", "repeating"}
PriceShapes == {"rising", "falling", "zigzag"}
LongLens == {100, 300} \cup ((YEAR_ROWS - Margin)..(YEAR_ROWS + Margin))

\* day number of 2019-01-01, the first day of the long arrays
FirstDay == to_datetime(<<2019, 1, 1>>)

\* record i of a long array of n records
LongRecord(ko, i, n, order, shape) ==
    LET day == CASE order = "ascending"  -> FirstDay + i
                 [] order = "descending" -> FirstDay + (n - i)
                 [] OTHER                -> FirstDay + (i \div 2)
        close == CASE shape = "rising"  -> 10000 + i
                   [] shape = "falling" -> 20000 - i
                   [] OTHER             -> 10000 + ((i * 37) % 101)
    IN  ApiRecord(ko, DateText(day),
                  <<close - 3, close + 5, close - 7, close, 10 * i>>)

LongArrays ==
    { [i \in 1..n |-> LongRecord(ko, i, n, order, shape)] :
        n \in LongLens, order \in DateOrders, shape \in PriceShapes,
        ko \in KeyOrders }

\* the parsed bodies: an array of records, a JSON object (an error object
\* is one with an "error" key), or a body that is not JSON
ArrayBodies == { [kind |-> "array", records |-> a] : a \in ShortArrays \cup LongArrays }
ObjectBodies == { [kind |-> "object", keys |-> ks] : ks \in SUBSET {"error", "message"} }
TextBody == [kind |-> "text"]
Bodies == ArrayBodies \cup ObjectBodies \cup {TextBody}

\* the bodies that come with a status other than 200
FailureBodies ==
    ObjectBodies \cup {TextBody}
    \cup { [kind |-> "array", records |-> a] : a \in {s \in ShortArrays : Len(s) <= 1} }

Statuses == {HTTP_OK, 204, 403, 404, 500}

Responses ==
    { [status_code |-> HTTP_OK, body |-> b] : b \in Bodies }
    \cup { [status_code |-> st, body |-> b] :
             st \in Statuses \ {HTTP_OK}, b \in FailureBodies }

Symbols == { popular_symbols[i] : i \in 1..Min(MaxSymbols, Len(popular_symbols)) }

-----------------------------------------------------------------------------
(* pandas, as far as get_stock_data and the metrics use it *)

HasCol(cols, name) == \E i \in 1..Len(cols) : cols[i] = name
ColPos(cols, name) == CHOOSE i \in 1..Len(cols) : cols[i] = name

\* pd.DataFrame(list of records): one column per key, in the keys' order,
\* one row per record, under a RangeIndex; an empty list has no column
DataFrame(records) ==
    [tag |-> "df",
     columns |-> IF Len(records) = 0 THEN <<>>
                 ELSE [j \in 1..Len(records[1]) |-> records[1][j][1]],
     index |-> [i \in 1..Len(records) |-> i - 1],
     rows |-> [i \in 1..Len(records) |->
                  [j \in 1..Len(records[i]) |-> records[i][j][2]]]]

\* df[name]: the column as a sequence
Column(df, name) ==
    [i \in 1..Len(df.rows) |-> df.rows[i][ColPos(df.columns, name)]]

\* df["date"] = pd.to_datetime(df["date"])   (line 27)
ParseDates(df) ==
    LET p == ColPos(df.columns, "date")
    IN  [df EXCEPT !.rows =
            [i \in 1..Len(df.rows) |->
                [df.rows[i] EXCEPT ![p] = to_datetime(df.rows[i][p])]]]

\* df.set_index("date", inplace=True): the column becomes the index (line 28)
SetIndex(df, name) ==
    LET p == ColPos(df.columns, name)
        Drop(s) == SubSeq(s, 1, p - 1) \o SubSeq(s, p + 1, Len(s))
    IN  [df EXCEPT !.index = Column(df, name),
                   !.columns = Drop(df.columns),
                   !.rows = [i \in 1..Len(df.rows) |-> Drop(df.rows[i])]]

\* df[names]: the named columns, in the order of names (line 29)
Select(df, names) ==
    [df EXCEPT !.columns = names,
               !.rows = [i \in 1..Len(df.rows) |->
                            [j \in 1..Len(names) |->
                                df.rows[i][ColPos(df.columns, names[j])]]]]

\* df.columns = names: the columns are renamed by position (line 30)
Rename(df, names) == [df EXCEPT !.columns = names]

\* df.iloc[k]: the position a (possibly negative) k resolves to, 0-based;
\* outside 0..n-1 pandas raises IndexError
IlocPos(n, k) == IF k < 0 THEN n + k ELSE k
IlocInRange(n, k) == IlocPos(n, k) \in 0..(n - 1)
Iloc(df, k) == df.rows[IlocPos(Len(df.rows), k) + 1]
Cell(df, k, name) == Iloc(df, k)[ColPos(df.columns, name)]

\* df[name].tail(k): the last min(k, n) values
tail(s, k) == SubSeq(s, Len(s) - Min(k, Len(s)) + 1, Len(s))

-----------------------------------------------------------------------------
(* get_stock_data  (src/Another.py 11-31) *)

\* variant of line 16: only the 4xx and 5xx statuses count as failures
IsFetchFailure_ErrorClassOnly(status_code) == status_code >= 400

\* line 16
IsFetchFailure(status_code) == status_code # HTTP_OK

\* variant of line 21: the payload check looks for a "message" key
IsErrorObject_MessageKey(d) == d.kind = "object" /\ "message" \in d.keys

\* line 21
IsErrorObject(d) == d.kind = "object" /\ "error" \in d.keys

\* lines 26-31: the series, or the exception pandas raises on the way
BuildSeries(d) ==
    IF d.kind = "object"
    THEN \* a dict of scalars has no index; an empty dict has no "date"
         [tag |-> "raise",
          error |-> IF d.keys = {} THEN "KeyError" ELSE "ValueError"]
    ELSE LET df26 == DataFrame(d.records)
         IN  IF ~HasCol(df26.columns, "date")
             THEN [tag |-> "raise", error |-> "KeyError"]
             ELSE LET df28 == SetIndex(ParseDates(df26), "date")
                  IN  IF \E j \in 1..Len(SELECTED) : ~HasCol(df28.columns, SELECTED[j])
                      THEN [tag |-> "raise", error |-> "KeyError"]
                      ELSE Rename(Select(df28, SELECTED), RENAMED)

-----------------------------------------------------------------------------
(* calculate_price_difference  (src/Another.py 34-39) *)

\* variants of line 36: one row further back; the length guard dropped
PreviousYearIloc_OneFurther(n) == IF n > YEAR_ROWS THEN 0 - YEAR_ROWS - 1 ELSE 0
PreviousYearIloc_Unguarded(n) == 0 - YEAR_ROWS

\* line 36: the argument of iloc for the year-over-year comparison row
PreviousYearIloc(n) == IF n > YEAR_ROWS THEN 0 - YEAR_ROWS ELSE 0

\* the locals of the function and the row positions it reads, or the
\* exception it raises; the percentage is kept as the fraction num/den
calculate_price_difference(sd) ==
    IF sd.tag # "df" THEN [tag |-> "raise", error |-> "TypeError"]
    ELSE LET n == Len(sd.rows)
             k == PreviousYearIloc(n)
         IN  IF ~IlocInRange(n, -1) \/ ~IlocInRange(n, k)
             THEN [tag |-> "raise", error |-> "IndexError"]
             ELSE LET latest_price == Cell(sd, -1, "Close")
                      previous_year_price == Cell(sd, k, "Close")
                      price_difference == latest_price - previous_year_price
                  IN  [tag |-> "ok",
                       latest_pos |-> IlocPos(n, -1),
                       previous_pos |-> IlocPos(n, k),
                       price_difference |-> price_difference,
                       percentage_difference |->
                           [num |-> price_difference * 100,
                            den |-> previous_year_price]]

\* lines 56-57: the number of trailing rows of the 52-week high and low
WEEK52_ROWS == YEAR_ROWS
\* variant of line 56: the maximum of the whole column
max_52_week_high_AllRows(sd) == SeqMax(Column(sd, "High"))

max_52_week_high(sd) == SeqMax(tail(Column(sd, "High"), WEEK52_ROWS))
min_52_week_low(sd) == SeqMin(tail(Column(sd, "Low"), WEEK52_ROWS))

-----------------------------------------------------------------------------
(* app()  (src/Another.py 42-92), one action per step of a run *)

\* variant of line 52: the None check dropped
ShouldRender_Always(sd) == TRUE

\* line 52
ShouldRender(sd) == sd # None

\* a run of app() leaves the other tool's state alone
otherTools == <<paletteVars, hexVars>>

InitStock ==
    /\ pc = "start"
    /\ symbol = "" /\ response = Unset /\ requests = 0 /\ json_calls = 0
    /\ data = Unset /\ stock_data = Unset /\ metrics = Unset
    /\ reads = {} /\ page = <<>> /\ exc = "none"

Raise(error) ==
    /\ exc' = error
    /\ page' = Append(page, [kind |-> "exception", error |-> error])
    /\ pc' = "crashed"

\* lines 43-48: the page header and the symbol selection
AppStart(sym) ==
    /\ pc = "start"
    /\ symbol' = sym
    /\ page' = <<[kind |-> "title"]>>
    /\ pc' = "request"
    /\ UNCHANGED <<response, requests, json_calls, data, stock_data, metrics,
                   reads, exc>>
    /\ UNCHANGED otherTools

\* lines 12-13: the one request of get_stock_data and its response
SendRequest(resp) ==
    /\ pc = "request"
    /\ requests' = requests + 1
    /\ response' = resp
    /\ pc' = "status"
    /\ UNCHANGED <<symbol, json_calls, data, stock_data, metrics, reads, page, exc>>
    /\ UNCHANGED otherTools

\* lines 16-18
StatusError ==
    /\ pc = "status"
    /\ IsFetchFailure(response.status_code)
    /\ page' = Append(page, [kind |-> "error", text |-> "Failed to fetch data",
                             code |-> response.status_code])
    /\ stock_data' = None
    /\ pc' = "returned"
    /\ UNCHANGED <<symbol, response, requests, json_calls, data, metrics, reads, exc>>
    /\ UNCHANGED otherTools

\* line 20: response.json(), which raises on a body that is not JSON
ParseJson ==
    /\ pc = "status"
    /\ ~IsFetchFailure(response.status_code)
    /\ json_calls' = json_calls + 1
    /\ IF response.body.kind = "text"
       THEN Raise("JSONDecodeError") /\ UNCHANGED data
       ELSE data' = response.body /\ pc' = "payload" /\ UNCHANGED <<page, exc>>
    /\ UNCHANGED <<symbol, response, requests, stock_data, metrics, reads>>
    /\ UNCHANGED otherTools

\* lines 21-23
PayloadError ==
    /\ pc = "payload"
    /\ IsErrorObject(data)
    /\ page' = Append(page, [kind |-> "error", text |-> "Error", key |-> "error"])
    /\ stock_data' = None
    /\ pc' = "returned"
    /\ UNCHANGED <<symbol, response, requests, json_calls, data, metrics, reads, exc>>
    /\ UNCHANGED otherTools

\* lines 26-31
ReturnSeries ==
    /\ pc = "payload"
    /\ ~IsErrorObject(data)
    /\ LET built == BuildSeries(data)
       IN  IF built.tag = "raise"
           THEN Raise(built.error) /\ UNCHANGED stock_data
           ELSE stock_data' = built /\ pc' = "returned" /\ UNCHANGED <<page, exc>>
    /\ UNCHANGED <<symbol, response, requests, json_calls, data, metrics, reads>>
    /\ UNCHANGED otherTools

\* line 52, the series withheld: nothing more is rendered
SkipRender ==
    /\ pc = "returned"
    /\ ~ShouldRender(stock_data)
    /\ pc' = "done"
    /\ UNCHANGED <<symbol, response, requests, json_calls, data, stock_data,
                   metrics, reads, page, exc>>
    /\ UNCHANGED otherTools

\* lines 52-57
ComputeMetrics ==
    /\ pc = "returned"
    /\ ShouldRender(stock_data)
    /\ LET m == calculate_price_difference(stock_data)
       IN  IF m.tag = "raise"
           THEN Raise(m.error) /\ UNCHANGED <<metrics, reads>>
           ELSE /\ metrics' = [tag |-> "metrics",
                               price_difference |-> m.price_difference,
                               percentage_difference |-> m.percentage_difference,
                               latest_pos |-> m.latest_pos,
                               previous_pos |-> m.previous_pos,
                               latest_close_price |-> Cell(stock_data, -1, "Close"),
                               max_52_week_high |-> max_52_week_high(stock_data),
                               min_52_week_low |-> min_52_week_low(stock_data)]
                /\ reads' = {m.latest_pos, m.previous_pos}
                /\ pc' = "metrics"
                /\ UNCHANGED <<page, exc>>
    /\ UNCHANGED <<symbol, response, requests, json_calls, data, stock_data>>
    /\ UNCHANGED otherTools

\* lines 60-68: the four metric tiles
RenderMetrics ==
    /\ pc = "metrics"
    /\ page' = page \o
         << [kind |-> "metric", label |-> "Close Price",
             value |-> metrics.latest_close_price],
            [kind |-> "metric", label |-> "Price Difference (YoY)",
             value |-> metrics.price_difference,
             delta |-> metrics.percentage_difference],
            [kind |-> "metric", label |-> "52-Week High",
             value |-> metrics.max_52_week_high],
            [kind |-> "metric", label |-> "52-Week Low",
             value |-> metrics.min_52_week_low] >>
    /\ pc' = "chart"
    /\ UNCHANGED <<symbol, response, requests, json_calls, data, stock_data,
                   metrics, reads, exc>>
    /\ UNCHANGED otherTools

\* lines 71-82
RenderChart ==
    /\ pc = "chart"
    /\ page' = Append(page,
         [kind |-> "candlestick", title |-> symbol,
          x |-> stock_data.index,
          open |-> Column(stock_data, "Open"), high |-> Column(stock_data, "High"),
          low |-> Column(stock_data, "Low"), close |-> Column(stock_data, "Close")])
    /\ pc' = "summary"
    /\ UNCHANGED <<symbol, response, requests, json_calls, data, stock_data,
                   metrics, reads, exc>>
    /\ UNCHANGED otherTools

\* lines 85-86: stock_data.tail() shows the last five rows
RenderSummary ==
    /\ pc = "summary"
    /\ page' = Append(page, [kind |-> "dataframe",
                             index |-> tail(stock_data.index, 5),
                             rows |-> tail(stock_data.rows, 5)])
    /\ pc' = "download"
    /\ UNCHANGED <<symbol, response, requests, json_calls, data, stock_data,
                   metrics, reads, exc>>
    /\ UNCHANGED otherTools

\* lines 87-92: the CSV of the whole series, keyed by date
RenderDownload ==
    /\ pc = "download"
    /\ page' = Append(page, [kind |-> "download", file_name |-> symbol,
                             header |-> <<"date">> \o stock_data.columns,
                             index |-> stock_data.index,
                             rows |-> stock_data.rows])
    /\ pc' = "done"
    /\ UNCHANGED <<symbol, response, requests, json_calls, data, stock_data,
                   metrics, reads, exc>>
    /\ UNCHANGED otherTools

\* the framework runs the script again, top to bottom, on a widget change
Rerun ==
    /\ pc \in {"done", "crashed"}
    /\ pc' = "start"
    /\ symbol' = "" /\ response' = Unset /\ requests' = 0 /\ json_calls' = 0
    /\ data' = Unset /\ stock_data' = Unset /\ metrics' = Unset
    /\ reads' = {} /\ page' = <<>> /\ exc' = "none"
    /\ UNCHANGED otherTools

IdlePalette ==
    /\ gpc = "idle" /\ upload = Unset /\ adjusted = Unset /\ num_colors = 0
    /\ colors = <<>> /\ hex_colors = <<>> /\ gpage = <<>>

IdleHex == rgb = <<0, 0, 0>> /\ hex = <<>>

Next ==
    \/ \E sym \in Symbols : AppStart(sym)
    \/ \E resp \in Responses : SendRequest(resp)
    \/ StatusError
    \/ ParseJson
    \/ PayloadError
    \/ ReturnSeries
    \/ SkipRender
    \/ ComputeMetrics
    \/ RenderMetrics
    \/ RenderChart
    \/ RenderSummary
    \/ RenderDownload
    \/ Rerun

Init == InitStock /\ IdlePalette /\ IdleHex

\* the runs of the stock dashboard
Spec == Init /\ [][Next]_vars

-----------------------------------------------------------------------------
(* rgb_to_hex  (src/generator.py 28-32).  A Python string is the sequence *)
(* of its characters.                                                     *)

HexDigits == <<"0", "1", "2", "3", "4", "5", "6", "7",
               "8", "9", "a", "b", "c", "d", "e", "f">>

\* the digits of n >= 0 in base 16, as format type 'x' prints them
RECURSIVE ToHex(_)
ToHex(n) == IF n < 16 THEN <<HexDigits[n + 1]>>
            ELSE Append(ToHex(n \div 16), HexDigits[(n % 16) + 1])

\* fill with "0" on the left up to the width w; a longer text is kept whole
RECURSIVE ZeroPad(_, _)
ZeroPad(digits, w) == IF Len(digits) >= w THEN digits
                      ELSE ZeroPad(<<"0">> \o digits, w)

\* variant of the format spec: {:x}, without the width
Format02x_NoPadding(v) == IF v < 0 THEN <<"-">> \o ToHex(0 - v) ELSE ToHex(v)

\* "{:02x}".format(v): the sign counts in the width of 2
Format02x(v) == IF v < 0 THEN <<"-">> \o ZeroPad(ToHex(0 - v), 1)
                ELSE ZeroPad(ToHex(v), 2)

rgb_to_hex(c) == <<"#">> \o Format02x(c[1]) \o Format02x(c[2]) \o Format02x(c[3])

-----------------------------------------------------------------------------
(* Pillow and scikit-learn, as far as main() uses them.  An image is its   *)
(* mode and its pixels in raster order: triples for "RGB", single values   *)
(* for "L", palette positions for "P".                                     *)

Clip(v) == IF v < 0 THEN 0 ELSE IF v > 255 THEN 255 ELSE v

RECURSIVE Sum(_)
Sum(q) == IF Len(q) = 0 THEN 0 ELSE q[1] + Sum(SubSeq(q, 2, Len(q)))

\* the grey level of a pixel (image.convert("L"))
Luma(mode, px) ==
    IF mode = "RGB" THEN (299 * px[1] + 587 * px[2] + 114 * px[3] + 500) \div 1000
    ELSE px

\* Image.blend(degenerate, image, factor), factor given in halves
Blend(deg, v, half) == Clip((2 * deg + half * (v - deg)) \div 2)

EnhancePixel(mode, px, deg, half) ==
    IF mode = "RGB"
    THEN <<Blend(deg, px[1], half), Blend(deg, px[2], half), Blend(deg, px[3], half)>>
    ELSE Blend(deg, px, half)

\* ImageEnhance.Brightness(image).enhance(f): blend with a black image
Brightness(img, half) ==
    [img EXCEPT !.pixels = [i \in 1..Len(img.pixels) |->
                               EnhancePixel(img.mode, img.pixels[i], 0, half)]]

\* ImageEnhance.Contrast(image).enhance(f): blend with the mean grey level
Contrast(img, half) ==
    LET n == Len(img.pixels)
        mean == (2 * Sum([i \in 1..n |-> Luma(img.mode, img.pixels[i])]) + n)
                    \div (2 * n)
    IN  [img EXCEPT !.pixels = [i \in 1..n |->
                                   EnhancePixel(img.mode, img.pixels[i], mean, half)]]

\* adjust_image (56-64): brightness first, then contrast; a palette image
\* cannot be blended and Pillow raises ValueError
adjust_image(img, brightness, contrast) ==
    IF img.mode = "P" THEN [tag |-> "raise", error |-> "ValueError"]
    ELSE Contrast(Brightness(img, brightness), contrast)

\* np.array(image).reshape(-1, 3): the channel values in raster order, in
\* rows of three (lines 15-18)
Flat(img) ==
    IF img.mode = "RGB"
    THEN [i \in 1..(3 * Len(img.pixels)) |-> img.pixels[((i - 1) \div 3) + 1][((i - 1) % 3) + 1]]
    ELSE img.pixels
Reshape3(flat) ==
    [i \in 1..(Len(flat) \div 3) |-> <<flat[3 * i - 2], flat[3 * i - 1], flat[3 * i]>>]

\* KMeans(n_clusters=k).fit(pixels).cluster_centers_.astype(int) (21-25):
\* k centres, in cluster order; a centre is the mean of its cluster's
\* pixels, cut to an integer.  The clustering itself is the library's: row
\* j is put in cluster (j + labelling) mod k, and a cluster left without a
\* row takes a row of the data.
Centre(pixels, members) ==
    LET q(ch) == [i \in 1..Len(members) |-> pixels[members[i]][ch]]
    IN  <<Sum(q(1)) \div Len(members), Sum(q(2)) \div Len(members),
          Sum(q(3)) \div Len(members)>>

ClusterCentres(pixels, k, labelling) ==
    [i \in 1..k |->
        LET members == SelectSeq([j \in 1..Len(pixels) |-> j],
                                 LAMBDA j : (j + labelling) % k = i - 1)
        IN  IF members = <<>>
            THEN pixels[((i + labelling) % Len(pixels)) + 1]
            ELSE Centre(pixels, members)]

RECURSIVE Distinct(_)
Distinct(q) ==
    IF Len(q) = 0 THEN <<>>
    ELSE LET front == Distinct(SubSeq(q, 1, Len(q) - 1))
         IN  IF \E i \in 1..Len(front) : front[i] = q[Len(q)]
             THEN front ELSE Append(front, q[Len(q)])

\* variant of line 25: repeated centres are dropped from the palette
extract_colors_Distinct(img, k, labelling) ==
    Distinct(ClusterCentres(Reshape3(Flat(img)), k, labelling))

\* extract_colors (9-26); the resize of line 14 keeps the model's images
extract_colors(img, k, labelling) ==
    ClusterCentres(Reshape3(Flat(img)), k, labelling)

\* plot_colors (34-54): one rectangle per colour, at x = its position
plot_colors(cs, save_as_file) ==
    [kind |-> IF save_as_file THEN "png" ELSE "figure",
     patches |-> [i \in 1..Len(cs) |-> [x |-> i - 1, facecolor |-> cs[i]]],
     xlim |-> Len(cs)]

\* "\n".join(lines)
RECURSIVE Join(_)
Join(lines) ==
    IF Len(lines) = 0 THEN <<>>
    ELSE IF Len(lines) = 1 THEN lines[1]
    ELSE lines[1] \o <<"\n">> \o Join(SubSeq(lines, 2, Len(lines)))

-----------------------------------------------------------------------------
(* main()  (src/generator.py 66-115), one action per step of a run *)

\* the bounds of the "Number of Colors" slider (line 87)
MIN_COLORS == 2
MAX_COLORS == 10

\* the slider positions of brightness and contrast that are offered, in
\* halves: 0.5, 1.0 and 2.0 (lines 80-81)
Factors == {1, 2, 4}

\* the cluster labellings that are tried
MaxLabelling == 1

\* the uploads: the raster the resize of line 14 leaves, six pixels here
Images ==
    { [tag |-> "image", mode |-> "RGB",
       pixels |-> <<c, c, c, c, c, c>>] : c \in {<<255, 0, 0>>, <<0, 0, 0>>} }
    \cup
    { [tag |-> "image", mode |-> "RGB",
       pixels |-> << <<255, 0, 0>>, <<250, 10, 5>>, <<0, 0, 255>>,
                     <<10, 20, 200>>, <<0, 128, 0>>, <<255, 255, 255>> >>],
      [tag |-> "image", mode |-> "L", pixels |-> <<0, 40, 80, 120, 200, 255>>],
      [tag |-> "image", mode |-> "P", pixels |-> <<0, 1, 2, 1, 0, 2>>] }

stockAndHex == <<stockVars, hexVars>>

InitPalette ==
    /\ gpc = "start" /\ upload = Unset /\ adjusted = Unset /\ num_colors = 0
    /\ colors = <<>> /\ hex_colors = <<>> /\ gpage = <<>>

\* lines 67-76: the header, the uploader and, with a file, the image
MainStart(file) ==
    /\ gpc = "start"
    /\ upload' = file
    /\ gpage' = <<[kind |-> "title"], [kind |-> "write"], [kind |-> "file_uploader"]>>
                 \o (IF file = None THEN <<>>
                     ELSE <<[kind |-> "image", caption |-> "Uploaded Image"]>>)
    /\ gpc' = IF file = None THEN "done" ELSE "adjust"
    /\ UNCHANGED <<adjusted, num_colors, colors, hex_colors>>
    /\ UNCHANGED stockAndHex

\* lines 79-83
AdjustImage(brightness, contrast) ==
    /\ gpc = "adjust"
    /\ LET img == adjust_image(upload, brightness, contrast)
       IN  IF img.tag = "raise"
           THEN /\ gpage' = gpage \o <<[kind |-> "subheader"], [kind |-> "slider"],
                                       [kind |-> "slider"],
                                       [kind |-> "exception", error |-> img.error]>>
                /\ gpc' = "crashed"
                /\ UNCHANGED adjusted
           ELSE /\ gpage' = gpage \o <<[kind |-> "subheader"], [kind |-> "slider"],
                                       [kind |-> "slider"],
                                       [kind |-> "image", caption |-> "Adjusted Image"]>>
                /\ adjusted' = img
                /\ gpc' = "extract"
    /\ UNCHANGED <<upload, num_colors, colors, hex_colors>>
    /\ UNCHANGED stockAndHex

\* lines 86-91
ExtractColors(k, labelling) ==
    /\ gpc = "extract"
    /\ num_colors' = k
    /\ LET cs == extract_colors(adjusted, k, labelling)
       IN  /\ colors' = cs
           /\ hex_colors' = [i \in 1..Len(cs) |-> rgb_to_hex(cs[i])]
    /\ gpage' = gpage \o <<[kind |-> "subheader"], [kind |-> "slider"]>>
    /\ gpc' = "show"
    /\ UNCHANGED <<upload, adjusted>>
    /\ UNCHANGED stockAndHex

\* lines 94-101: the palette figure and one detail line per colour
ShowPalette ==
    /\ gpc = "show"
    /\ gpage' = gpage
         \o <<[kind |-> "write"], [kind |-> "pyplot", fig |-> plot_colors(colors, FALSE)],
              [kind |-> "subheader"]>>
         \o [i \in 1..Len(colors) |->
                [kind |-> "detail", number |-> i, rgb |-> colors[i], hex |-> hex_colors[i]]]
    /\ gpc' = "save"
    /\ UNCHANGED <<upload, adjusted, num_colors, colors, hex_colors>>
    /\ UNCHANGED stockAndHex

\* lines 104-107: the image download appears when the button was pressed
SavePalette(pressed) ==
    /\ gpc = "save"
    /\ gpage' = gpage \o <<[kind |-> "subheader"], [kind |-> "button"]>>
         \o (IF pressed
             THEN <<[kind |-> "download_png", data |-> plot_colors(colors, TRUE)]>>
             ELSE <<>>)
    /\ gpc' = "hex"
    /\ UNCHANGED <<upload, adjusted, num_colors, colors, hex_colors>>
    /\ UNCHANGED stockAndHex

\* lines 110-115
ShowHexCodes ==
    /\ gpc = "hex"
    /\ LET hex_text == Join(hex_colors)
       IN  gpage' = gpage \o <<[kind |-> "subheader"],
                               [kind |-> "code", text |-> hex_text],
                               [kind |-> "download_txt", data |-> hex_text]>>
    /\ gpc' = "done"
    /\ UNCHANGED <<upload, adjusted, num_colors, colors, hex_colors>>
    /\ UNCHANGED stockAndHex

\* the framework runs the script again on a widget change
MainRerun ==
    /\ gpc \in {"done", "crashed"}
    /\ gpc' = "start" /\ upload' = Unset /\ adjusted' = Unset /\ num_colors' = 0
    /\ colors' = <<>> /\ hex_colors' = <<>> /\ gpage' = <<>>
    /\ UNCHANGED stockAndHex

NextPalette ==
    \/ \E file \in Images \cup {None} : MainStart(file)
    \/ \E b \in Factors, c \in Factors : AdjustImage(b, c)
    \/ \E k \in MIN_COLORS..MAX_COLORS, l \in 0..MaxLabelling : ExtractColors(k, l)
    \/ ShowPalette
    \/ \E pressed \in BOOLEAN : SavePalette(pressed)
    \/ ShowHexCodes
    \/ MainRerun

\* the runs of the palette generator
PaletteInit == InitStock /\ InitPalette /\ IdleHex
SpecPalette == PaletteInit /\ [][NextPalette]_vars

-----------------------------------------------------------------------------
(* Calls of rgb_to_hex on its own *)

\* the channel values tried are 0..ChannelEdge, 255-ChannelEdge..255 and
\* three values between
ChannelEdge == 1
Channels == (0..ChannelEdge) \cup {10, 16, 171} \cup ((255 - ChannelEdge)..255)
HexDomain == Channels \X Channels \X Channels

InitHex == rgb \in HexDomain /\ hex = <<>>

CallRgbToHex ==
    /\ hex = <<>>
    /\ hex' = rgb_to_hex(rgb)
    /\ UNCHANGED <<rgb, stockVars, paletteVars>>

NextTriple(c) ==
    /\ hex # <<>>
    /\ rgb' = c
    /\ hex' = <<>>
    /\ UNCHANGED <<stockVars, paletteVars>>

NextHex ==
    \/ CallRgbToHex
    \/ \E c \in HexDomain : NextTriple(c)

\* the calls of rgb_to_hex
HexInit == InitStock /\ IdlePalette /\ InitHex
SpecHex == HexInit /\ [][NextHex]_vars

-----------------------------------------------------------------------------
(* Properties of the stock dashboard *)

\* get_stock_data has finished its status check / its payload check
PastStatus == pc \notin {"start", "request", "status"}
PastPayload == pc \notin {"start", "request", "status", "payload"}

Errors == SelectSeq(page, LAMBDA e : e.kind = "error")
DataElements ==
    SelectSeq(page, LAMBDA e : e.kind \in {"metric", "candlestick", "dataframe", "download"})

\* the value of a key of an API record
Field(rec, key) == rec[CHOOSE j \in 1..Len(rec) : rec[j][1] = key][2]

\* C1: after a response whose status is not 200, get_stock_data has returned
\* None without raising, exactly one fetch error (carrying the status) is on
\* the page, one request was sent and no more, and the body was never parsed.
C1_NonOkYieldsNone ==
    (PastStatus /\ response.status_code # 200) =>
        /\ stock_data = None
        /\ pc \in {"returned", "done"}
        /\ exc = "none"
        /\ Errors = <<[kind |-> "error", text |-> "Failed to fetch data",
                       code |-> response.status_code]>>
        /\ requests = 1
        /\ json_calls = 0
        /\ data = Unset

C1_Witness ==
    /\ pc = "done" /\ response.status_code = 404 /\ response.body.kind = "array"
    /\ stock_data = None /\ Len(Errors) = 1

\* C2: after a status-200 response whose body is a JSON error object (an
\* object with an "error" key), get_stock_data has returned None, the data
\* error is on the page and no series was built from the body.
C2_ErrorObjectYieldsNone ==
    (/\ PastPayload
     /\ response.status_code = 200
     /\ response.body.kind = "object"
     /\ "error" \in response.body.keys) =>
        /\ stock_data = None
        /\ pc \in {"returned", "done"}
        /\ exc = "none"
        /\ Errors = <<[kind |-> "error", text |-> "Error", key |-> "error"]>>

C2_Witness ==
    /\ pc = "returned" /\ response.status_code = 200
    /\ response.body = [kind |-> "object", keys |-> {"error", "message"}]
    /\ stock_data = None /\ Len(Errors) = 1

\* C3: the latest row is row n-1; the comparison row is row n-252 when the
\* series reaches 252 rows back (row 48 for n = 300) and row 0 otherwise
\* (n = 100); the absolute difference is Close[n-1] - Close[comparison row].
C3_ComparisonRow ==
    metrics.tag = "metrics" =>
        LET n == Len(stock_data.rows)
            cmp == IF n - 252 >= 0 THEN n - 252 ELSE 0
        IN  /\ metrics.latest_pos = n - 1
            /\ metrics.previous_pos = cmp
            /\ (n = 300 => metrics.previous_pos = 48)
            /\ (n = 100 => metrics.previous_pos = 0)
            /\ metrics.price_difference =
                   stock_data.rows[n][4] - stock_data.rows[cmp + 1][4]

C3_Witness ==
    /\ metrics.tag = "metrics" /\ Len(stock_data.rows) = 300
    /\ metrics.previous_pos = 48 /\ metrics.latest_pos = 299
    /\ metrics.price_difference # 0

\* C4: every series get_stock_data returns has strictly increasing dates
\* (hence no duplicate date).
C4_DatesStrictlyIncreasing ==
    stock_data.tag = "df" =>
        \A i \in 1..(Len(stock_data.index) - 1) :
            stock_data.index[i] < stock_data.index[i + 1]

\* C5: for every status-200 array of records that each hold date, open,
\* high, low, close and volume, get_stock_data returns a series with one row
\* per record, in the records' order, indexed by the record's date, with the
\* columns Open, High, Low, Close, Volume carrying the fields of that name.
C5_SeriesMirrorsRecords ==
    (/\ PastPayload
     /\ response.status_code = 200
     /\ response.body.kind = "array") =>
        LET recs == response.body.records
        IN  /\ stock_data.tag = "df"
            /\ stock_data.columns = <<"Open", "High", "Low", "Close", "Volume">>
            /\ Len(stock_data.rows) = Len(recs)
            /\ Len(stock_data.index) = Len(recs)
            /\ \A i \in 1..Len(recs) :
                  /\ stock_data.index[i] = to_datetime(Field(recs[i], "date"))
                  /\ stock_data.rows[i] =
                        << Field(recs[i], "open"), Field(recs[i], "high"),
                           Field(recs[i], "low"), Field(recs[i], "close"),
                           Field(recs[i], "volume") >>

\* C6: the 52-week high is the greatest High and the 52-week low the least
\* Low of exactly the last min(252, n) rows of the series.
C6_TrailingWindow ==
    metrics.tag = "metrics" =>
        LET n == Len(stock_data.rows)
            window == (n - (IF n < 252 THEN n ELSE 252) + 1)..n
        IN  /\ \E i \in window : stock_data.rows[i][2] = metrics.max_52_week_high
            /\ \A i \in window : stock_data.rows[i][2] <= metrics.max_52_week_high
            /\ \E i \in window : stock_data.rows[i][3] = metrics.min_52_week_low
            /\ \A i \in window : stock_data.rows[i][3] >= metrics.min_52_week_low

\* a series longer than the window whose highest High lies before the window
C6_Witness ==
    /\ metrics.tag = "metrics" /\ Len(stock_data.rows) = 300
    /\ \E i \in 1..48 : stock_data.rows[i][2] > metrics.max_52_week_high

\* C9: metrics, chart, table and download are on the page only when
\* get_stock_data returned a series in this run; when it returned None the
\* run renders none of them, raises nothing and ends with the page holding
\* the header and the one error message.
C9_NoPartialRendering ==
    /\ DataElements # <<>> => (stock_data.tag = "df" /\ requests = 1 /\ Errors = <<>>)
    /\ Errors # <<>> => (stock_data = None /\ DataElements = <<>>)
    /\ stock_data = None =>
          /\ pc \in {"returned", "done"}
          /\ exc = "none"
          /\ Len(page) = 2 /\ page[1].kind = "title" /\ page[2].kind = "error"

C9_Witness ==
    /\ pc = "done" /\ stock_data = None /\ response.status_code = 200
    /\ Len(page) = 2 /\ page[2].kind = "error"

\* a run that did render: the four tiles, the chart, the table, the download
C9_WitnessRendered ==
    /\ pc = "done" /\ stock_data.tag = "df" /\ Len(DataElements) = 7

\* C10: on a series of n >= 1 rows calculate_price_difference raises
\* nothing and reads only rows 0..n-1; the comparison row is never after the
\* latest row, and they are the same row exactly when n = 1, where the
\* absolute difference is 0.
C10_ReadsInRange ==
    /\ (stock_data.tag = "df" /\ Len(stock_data.rows) >= 1) =>
          (exc = "none" /\ pc # "crashed")
    /\ metrics.tag = "metrics" =>
          LET n == Len(stock_data.rows)
          IN  /\ reads # {}
              /\ reads \subseteq 0..(n - 1)
              /\ reads = {metrics.latest_pos, metrics.previous_pos}
              /\ metrics.previous_pos <= metrics.latest_pos
              /\ (metrics.previous_pos = metrics.latest_pos) <=> (n = 1)
              /\ n = 1 => metrics.price_difference = 0

C10_Witness ==
    /\ metrics.tag = "metrics" /\ Len(stock_data.rows) = 1
    /\ reads = {0} /\ metrics.price_difference = 0

-----------------------------------------------------------------------------
(* Properties of the palette generator *)

PageOf(kind) == SelectSeq(gpage, LAMBDA e : e.kind = kind)

\* the number of lines of a text
LineCount(text) == Cardinality({i \in 1..Len(text) : text[i] = "\n"}) + 1

\* C7: once extract_colors has returned in a run with an upload, the
\* palette and the hex list both have exactly num_colors entries (2..10),
\* hex_colors[i] is rgb_to_hex of colors[i]; the figure draws num_colors
\* swatches, side by side in palette order, and the hex download has
\* num_colors lines; a run that ends normally shows both.
C7_PaletteHasNEntries ==
    /\ gpc \in {"show", "save", "hex", "done"} /\ upload # None =>
          /\ num_colors \in 2..10
          /\ Len(colors) = num_colors
          /\ Len(hex_colors) = num_colors
          /\ \A i \in 1..num_colors : hex_colors[i] = rgb_to_hex(colors[i])
    /\ \A i \in 1..Len(gpage) :
          /\ gpage[i].kind = "pyplot" =>
                /\ Len(gpage[i].fig.patches) = num_colors
                /\ \A j \in 1..num_colors :
                      gpage[i].fig.patches[j] = [x |-> j - 1, facecolor |-> colors[j]]
          /\ gpage[i].kind = "download_png" => Len(gpage[i].data.patches) = num_colors
          /\ gpage[i].kind = "download_txt" => LineCount(gpage[i].data) = num_colors
    /\ gpc = "done" /\ upload # None =>
          /\ Len(PageOf("pyplot")) = 1
          /\ Len(PageOf("download_txt")) = 1
          /\ Len(PageOf("detail")) = num_colors

\* a finished run on a one-colour image with the largest cluster count
C7_Witness ==
    /\ gpc = "done" /\ upload # None /\ num_colors = 10 /\ Len(colors) = 10
    /\ \A i \in 1..10 : colors[i] = colors[1]
    /\ Len(PageOf("download_txt")) = 1 /\ Len(PageOf("download_png")) = 1

-----------------------------------------------------------------------------
(* Properties of rgb_to_hex *)

\* the lowercase hexadecimal digit of v in 0..15
LowerDigit(v) ==
    IF v < 10 THEN <<"0", "1", "2", "3", "4", "5", "6", "7", "8", "9">>[v + 1]
    ELSE <<"a", "b", "c", "d", "e", "f">>[v - 9]

\* the value of a lowercase hexadecimal digit
DigitValue(ch) == CHOOSE v \in 0..15 : LowerDigit(v) = ch

\* C8: for r, g, b in 0..255 the result has 7 characters: "#", then the two
\* lowercase hexadecimal digits of r, of g and of b, zero-padded; (255,0,0)
\* gives "#ff0000" and (0,0,0) gives "#000000"; the triple can be read back
\* from the result, and no other triple gives the same result.
C8_HexFormat ==
    hex # <<>> =>
        /\ Len(hex) = 7
        /\ hex = << "#", LowerDigit(rgb[1] \div 16), LowerDigit(rgb[1] % 16),
                         LowerDigit(rgb[2] \div 16), LowerDigit(rgb[2] % 16),
                         LowerDigit(rgb[3] \div 16), LowerDigit(rgb[3] % 16) >>
        /\ rgb = <<255, 0, 0>> => hex = <<"#", "f", "f", "0", "0", "0", "0">>
        /\ rgb = <<0, 0, 0>> => hex = <<"#", "0", "0", "0", "0", "0", "0">>
        /\ rgb = << 16 * DigitValue(hex[2]) + DigitValue(hex[3]),
                    16 * DigitValue(hex[4]) + DigitValue(hex[5]),
                    16 * DigitValue(hex[6]) + DigitValue(hex[7]) >>
        /\ \A other \in HexDomain : rgb_to_hex(other) = hex => other = rgb
        /\ \A ch \in 1..3 : \A v \in 0..255 :
              /\ Len(Format02x(v)) = 2
              /\ Format02x(v) = Format02x(rgb[ch]) => v = rgb[ch]

C8_Witness ==
    /\ rgb = <<255, 0, 0>> /\ hex = <<"#", "f", "f", "0", "0", "0", "0">>

C8_WitnessBlack ==
    /\ rgb = <<0, 0, 0>> /\ hex = <<"#", "0", "0", "0", "0", "0", "0">>

=============================================================================
